---- MODULE Spec2Model ----
(***************************************************************************)
(* Model of the orb_forge Anchor program                                   *)
(* (orb-agent-mono/contracts/solana-forge/src/lib.rs).                     *)
(*                                                                         *)
(* State: the ForgeState account, the ClaimRecord accounts (by address),   *)
(* the SPL token accounts and mints the program burns from, and the        *)
(* outcome of the last transaction.  One action per                        *)
(* instruction of the program; an instruction is Anchor's account          *)
(* validation (the #[derive(Accounts)] struct) followed by the handler,    *)
(* and the runtime commits its writes only when it returns Ok.             *)
(* Lamports (rent of the created accounts, fees) are not modelled.         *)
(***************************************************************************)
EXTENDS Integers, Sequences, FiniteSets, TLC

\* ---------------------------------------------------------------- bounds
\* Largest value of a u64 in the model (stands for 2^64 - 1): thresholds,
\* token amounts and total_claimed range over 0..U64_MAX.
U64_MAX == 1
\* Largest reading of Clock::unix_timestamp in the model.
MaxClock == 1
\* Initial amount of each funded token account.
InitAmount == 1

\* ------------------------------------------------------------- universes
Users == {"u1", "u2"}
\* Who sends the first initialize (the deployer); once the ForgeState
\* exists anyone may send initialize again.
Deployers == {"u1"}
Orbs == {"o1", "o2"}
RARI == "RARI"
FAKE == "FAKE"
\* The mints that can be passed as rari_mint; the forge is set up for RARI.
RariMints == {RARI, FAKE}
Bridges == {"wh"}
ChainIds == {1, 2}
U64 == 0..U64_MAX
DefaultPubkey == "default"

\* SPL token accounts that can be passed as user_rari_account.
\* u1 holds RARI; u2 holds only a token of another mint.
TokenAccounts == {"ta_u1", "ta_u2_fake"}
TokenOwner(ta) == IF ta = "ta_u1" THEN "u1" ELSE "u2"
TokenMint(ta) == IF ta = "ta_u2_fake" THEN FAKE ELSE RARI

\* Accounts that can be passed as orb_metadata, and the mint each one names.
\* md_forged is an account written by a caller; it is not the Metaplex
\* metadata of any orb.
Metadatas == {"md_o1", "md_o2", "md_forged"}
MetadataMint(md) == IF md = "md_o2" THEN "o2" ELSE "o1"
MetadataGenuine(md) == md # "md_forged"

\* Who holds each orb NFT (SPL state the program is never given).
OrbHolder(orb) == IF orb = "o1" THEN "u1" ELSE "u2"

VARIABLES forge_state, claim_record, token_amount, mint_supply, last

vars == <<forge_state, claim_record, token_amount, mint_supply, last>>

\* The accounts a transaction can write.
accts == <<forge_state, claim_record, token_amount, mint_supply>>

\* ------------------------------------------------------------ data types
\* #[account] ForgeState; exists is FALSE until `init` has created it.
ForgeStateZero ==
    [exists |-> FALSE, authority |-> DefaultPubkey,
     wormhole_bridge |-> DefaultPubkey, rari_mint |-> DefaultPubkey,
     rari_threshold |-> 0, total_claimed |-> 0, paused |-> FALSE]

\* #[account] ClaimRecord as `init` leaves it: zeroed.
ClaimRecordZero ==
    [orb_mint |-> DefaultPubkey, claimer |-> DefaultPubkey,
     claimed_at |-> 0, target_chain |-> 0]

\* #[event] OrbFedEvent.
OrbFedEvent_NoAmount(orb_mint, claimer, target_chain, rari_burned) ==
    [orb_mint |-> orb_mint, claimer |-> claimer,
     target_chain |-> target_chain, rari_burned |-> 0]
OrbFedEvent(orb_mint, claimer, target_chain, rari_burned) ==
    [orb_mint |-> orb_mint, claimer |-> claimer,
     target_chain |-> target_chain, rari_burned |-> rari_burned]

NoClaimRecords == [a \in {} |-> ClaimRecordZero]

\* The writable state a transaction works on, with the events and messages
\* it has logged so far.
Cur ==
    [forge_state |-> forge_state, claim_record |-> claim_record,
     token_amount |-> token_amount, mint_supply |-> mint_supply,
     events |-> <<>>, msgs |-> <<>>]

Out(err, st) == [err |-> err, st |-> st]

\* ------------------------------------------------------- runtime, Anchor
\* A transaction's writes and logs are kept only if the instruction
\* returned Ok(()); an Err (require!, `?`, a failed constraint, a panic)
\* discards them.
TxCommit(pre, out) == IF out.err = "Ok" THEN out.st ELSE pre

\* seeds = [b"claim", orb_mint.key().as_ref()]
ClaimPda_PerClaimer(orb_mint, user) == <<"claim", orb_mint, user>>
ClaimPda(orb_mint, user) == <<"claim", orb_mint>>

\* `init`: create the account at the address, zeroed; the system program
\* refuses an address that is already in use.
InitAccount(accounts, addr) ==
    [a \in (DOMAIN accounts) \cup {addr} |->
        IF a = addr THEN ClaimRecordZero ELSE accounts[a]]

\* has_one = authority
HasOneAuthority_Dropped(fs, authority) == TRUE
HasOneAuthority(fs, authority) == fs.authority = authority

\* constraint = user_rari_account.owner == user.key()
OwnerConstraint_Dropped(ta, user) == TRUE
OwnerConstraint(ta, user) == TokenOwner(ta) = user

\* constraint = user_rari_account.mint == rari_mint.key()
MintConstraint(ta, rari_mint) == TokenMint(ta) = rari_mint

\* u64 `x += 1`: the results the build can produce.  Below the maximum it
\* is x + 1; at the maximum it panics when overflow checks are compiled in
\* and wraps to 0 when they are not.
U64AddAssign1(x) ==
    IF x < U64_MAX
    THEN {[panic |-> FALSE, val |-> x + 1]}
    ELSE {[panic |-> TRUE, val |-> x],
          [panic |-> FALSE, val |-> (x + 1) % (U64_MAX + 1)]}


\* ------------------------------------------------------------ initialize
InitializeArgs ==
    [authority : Users, wormhole_bridge : Bridges, rari_mint : {RARI},
     rari_threshold : U64]

\* Initialize<'info>: forge_state is `init`, authority is the signing payer.
InitializeAccounts_InitIfNeeded(st, a) ==
    IF st.forge_state.exists
    THEN Out("Ok", st)
    ELSE Out("Ok", [st EXCEPT !.forge_state = [ForgeStateZero EXCEPT !.exists = TRUE]])
InitializeAccounts(st, a) ==
    IF st.forge_state.exists
    THEN Out("AccountAlreadyInUse", st)
    ELSE Out("Ok", [st EXCEPT !.forge_state = [ForgeStateZero EXCEPT !.exists = TRUE]])

initialize(st, a) ==
    Out("Ok",
        [st EXCEPT !.forge_state =
            [@ EXCEPT !.authority = a.authority,
                      !.wormhole_bridge = a.wormhole_bridge,
                      !.rari_mint = a.rari_mint,
                      !.rari_threshold = a.rari_threshold,
                      !.total_claimed = 0,
                      !.paused = FALSE]])

\* -------------------------------------------------------------- feed_orb
\* user is the signer of the transaction (Signer<'info>, payer of the
\* claim_record); the other accounts are whatever the caller passes.
FeedOrbArgs ==
    [user : Users, orb_mint : Orbs, orb_metadata : Metadatas,
     rari_mint : RariMints, user_rari_account : TokenAccounts,
     chain_id : ChainIds]

\* FeedOrb<'info>: the accounts are deserialized, then the `init` of
\* claim_record runs, then the constraints of the other accounts.
FeedOrbAccounts_InitIfNeeded(st, a) ==
    IF ~st.forge_state.exists
    THEN Out("AccountNotInitialized", st)
    ELSE LET pda == ClaimPda(a.orb_mint, a.user)
             st1 == [st EXCEPT !.claim_record = InitAccount(@, pda)] IN
         IF ~OwnerConstraint(a.user_rari_account, a.user)
         THEN Out("ConstraintRaw", st1)
         ELSE IF ~MintConstraint(a.user_rari_account, a.rari_mint)
         THEN Out("ConstraintRaw", st1)
         ELSE Out("Ok", st1)
FeedOrbAccounts_ConstraintsFirst(st, a) ==
    IF ~st.forge_state.exists
    THEN Out("AccountNotInitialized", st)
    ELSE IF ~OwnerConstraint(a.user_rari_account, a.user)
    THEN Out("ConstraintRaw", st)
    ELSE IF ~MintConstraint(a.user_rari_account, a.rari_mint)
    THEN Out("ConstraintRaw", st)
    ELSE LET pda == ClaimPda(a.orb_mint, a.user) IN
         IF pda \in DOMAIN st.claim_record
         THEN Out("AccountAlreadyInUse", st)
         ELSE Out("Ok", [st EXCEPT !.claim_record = InitAccount(@, pda)])
FeedOrbAccounts(st, a) ==
    IF ~st.forge_state.exists
    THEN Out("AccountNotInitialized", st)
    ELSE LET pda == ClaimPda(a.orb_mint, a.user) IN
         IF pda \in DOMAIN st.claim_record
         THEN Out("AccountAlreadyInUse", st)
         ELSE LET st1 == [st EXCEPT !.claim_record = InitAccount(@, pda)] IN
              IF ~OwnerConstraint(a.user_rari_account, a.user)
              THEN Out("ConstraintRaw", st1)
              ELSE IF ~MintConstraint(a.user_rari_account, a.rari_mint)
              THEN Out("ConstraintRaw", st1)
              ELSE Out("Ok", st1)

\* require!(!ctx.accounts.forge_state.paused, ErrorCode::ProgramPaused)
IsPaused_Ignored(fs) == FALSE
IsPaused(fs) == fs.paused

\* metadata.mint == ctx.accounts.orb_mint.key()
MetadataCheck(orb_metadata, orb_mint) == MetadataMint(orb_metadata) = orb_mint

\* token::burn(cpi_ctx, amount): the SPL token program's burn of `amount`
\* from account `from` of `mint`, signed by `authority`.
TokenBurn(st, mint, from, authority, amount) ==
    IF st.token_amount[from] < amount
    THEN Out("InsufficientFunds", st)
    ELSE IF TokenMint(from) # mint
    THEN Out("MintMismatch", st)
    ELSE IF TokenOwner(from) # authority
    THEN Out("OwnerMismatch", st)
    ELSE Out("Ok", [st EXCEPT !.token_amount[from] = @ - amount,
                              !.mint_supply[mint] = @ - amount])

\* chain_id != 1: the Wormhole message is prepared (msg!).
NeedsWormhole(chain_id) == chain_id # 1

\* msg!("Preparing Wormhole message for chain {}", chain_id): a line of
\* the program log; no Wormhole CPI is made and nothing else is built.
WormholeMsg(chain_id) ==
    [text |-> "Preparing Wormhole message for chain", chain_id |-> chain_id]

\* Clock::get()?.unix_timestamp: what the Clock sysvar can read when the
\* transaction runs; the clock never runs backwards, so no reading is
\* earlier than a timestamp already recorded.
ClockReadings(st) ==
    {t \in 0..MaxClock :
        \A addr \in DOMAIN st.claim_record : st.claim_record[addr].claimed_at <= t}

\* The set of outcomes of the handler: one for each reading of the clock
\* and each result of the counter's increment.
feed_orb(st, a) ==
    IF IsPaused(st.forge_state)
    THEN {Out("ProgramPaused", st)}
    ELSE IF ~MetadataCheck(a.orb_metadata, a.orb_mint)
    THEN {Out("InvalidOrbMetadata", st)}
    ELSE LET b == TokenBurn(st, a.rari_mint, a.user_rari_account, a.user,
                            st.forge_state.rari_threshold) IN
         IF b.err # "Ok"
         THEN {b}
         ELSE LET pda == ClaimPda(a.orb_mint, a.user)
                  st2(now) == [b.st EXCEPT !.claim_record[pda] =
                             [orb_mint |-> a.orb_mint, claimer |-> a.user,
                              claimed_at |-> now, target_chain |-> a.chain_id]]
                  st3(now) == [st2(now) EXCEPT !.events =
                             Append(@, OrbFedEvent(a.orb_mint, a.user, a.chain_id,
                                                   b.st.forge_state.rari_threshold))]
                  st4(now) == IF NeedsWormhole(a.chain_id)
                              THEN [st3(now) EXCEPT !.msgs = Append(@, WormholeMsg(a.chain_id))]
                              ELSE st3(now)
              IN UNION {{IF r.panic
                         THEN Out("ProgramFailedToComplete", st4(now))
                         ELSE Out("Ok", [st4(now) EXCEPT
                                            !.forge_state.total_claimed = r.val])
                         : r \in U64AddAssign1(b.st.forge_state.total_claimed)}
                        : now \in ClockReadings(b.st)}

\* ------------------------------------------- toggle_pause, update_threshold
\* signer signs the transaction; authority is the account passed in the
\* `authority` slot.
TogglePauseArgs == [signer : Users, authority : Users]
UpdateThresholdArgs == [signer : Users, authority : Users, new_threshold : U64]

\* TogglePause<'info> / UpdateThreshold<'info>: forge_state has_one
\* authority, authority is a Signer.
AdminAccounts(st, a) ==
    IF ~st.forge_state.exists
    THEN Out("AccountNotInitialized", st)
    ELSE IF a.authority # a.signer
    THEN Out("AccountNotSigner", st)
    ELSE IF ~HasOneAuthority(st.forge_state, a.authority)
    THEN Out("ConstraintHasOne", st)
    ELSE Out("Ok", st)

toggle_pause_OnlyPauses(st, a) ==
    Out("Ok", [st EXCEPT !.forge_state.paused = TRUE])
toggle_pause(st, a) ==
    Out("Ok", [st EXCEPT !.forge_state.paused = ~@])

update_threshold(st, a) ==
    Out("Ok", [st EXCEPT !.forge_state.rari_threshold = a.new_threshold])

\* ---------------------------------------------------------------- actions
\* What each instruction returns in the current state, with the state it
\* has written when it returns.
InitializeOut(a) ==
    LET v == InitializeAccounts(Cur, a) IN
    IF v.err = "Ok" THEN initialize(v.st, a) ELSE v

\* feed_orb run on the accounts as they are in `st`.
FeedOrbOutsAt(st, a) ==
    LET v == FeedOrbAccounts(st, a) IN
    IF v.err = "Ok" THEN feed_orb(v.st, a) ELSE {v}

FeedOrbOuts(a) == FeedOrbOutsAt(Cur, a)

\* toggle_pause run on the accounts as they are in `st`.
TogglePauseOutAt(st, a) ==
    LET v == AdminAccounts(st, a) IN
    IF v.err = "Ok" THEN toggle_pause(v.st, a) ELSE v

TogglePauseOut(a) == TogglePauseOutAt(Cur, a)

UpdateThresholdOut(a) ==
    LET v == AdminAccounts(Cur, a) IN
    IF v.err = "Ok" THEN update_threshold(v.st, a) ELSE v

\* The state a transaction leaves behind.
Post(out) == TxCommit(Cur, out)

\* The accounts a transaction with outcome `out`, run on `st`, leaves to
\* the next transaction, which starts with an empty log.
Committed(st, out) == [TxCommit(st, out) EXCEPT !.events = <<>>, !.msgs = <<>>]

\* One transaction: validation and handler, then the commit.  `last` is
\* what the client sees of it: the instruction, its result, and the events
\* and Wormhole messages it logged.
Transact(op, out) ==
    LET post == Post(out) IN
    /\ forge_state' = post.forge_state
    /\ claim_record' = post.claim_record
    /\ token_amount' = post.token_amount
    /\ mint_supply' = post.mint_supply
    /\ last' = [op |-> op, err |-> out.err,
                events |-> post.events, msgs |-> post.msgs]

Initialize ==
    \E a \in InitializeArgs :
        /\ forge_state.exists \/ a.authority \in Deployers
        /\ Transact("initialize", InitializeOut(a))

FeedOrb ==
    \E a \in FeedOrbArgs : \E out \in FeedOrbOuts(a) : Transact("feed_orb", out)

TogglePause == \E a \in TogglePauseArgs : Transact("toggle_pause", TogglePauseOut(a))

UpdateThreshold ==
    \E a \in UpdateThresholdArgs : Transact("update_threshold", UpdateThresholdOut(a))

Init ==
    /\ forge_state = ForgeStateZero
    /\ claim_record = NoClaimRecords
    /\ token_amount = [ta \in TokenAccounts |-> InitAmount]
    /\ mint_supply = [m \in RariMints |-> InitAmount]
    /\ last = [op |-> "none", err |-> "Ok", events |-> <<>>, msgs |-> <<>>]

Next == Initialize \/ FeedOrb \/ TogglePause \/ UpdateThreshold

Spec == Init /\ [][Next]_vars

\* ======================================================================
\* Properties
\* ======================================================================
\* The error names of the specification, as the program reports them.
\* AlreadyClaimed is the system program refusing to create the claim_record
\* a second time; InsufficientBalance is the token program's
\* InsufficientFunds; Unauthorized is a violated has_one / owner constraint
\* or a missing signature.
AlreadyClaimed == "AccountAlreadyInUse"
InsufficientBalance == "InsufficientFunds"
UnauthorizedAdmin == {"AccountNotSigner", "ConstraintHasOne"}
UnauthorizedBalance == "ConstraintRaw"

\* The addresses of the ClaimRecords of an asset, and whether it has one.
RecordsOf(orb) == {addr \in DOMAIN claim_record : claim_record[addr].orb_mint = orb}
Claimed(orb) == RecordsOf(orb) # {}

\* The last transaction was instruction `op` and ended with `err`.
LastWas(op, err) == last.op = op /\ last.err = err

\* ---------------------------------------------------------------- C1
\* C1: in every reachable state each asset has at most one ClaimRecord,
\* and the address of a record is a function of the asset alone: two
\* callers of feed_orb for one asset address the same record.
C1_AtMostOneRecordPerAsset ==
    /\ \A orb \in Orbs : Cardinality(RecordsOf(orb)) <= 1
    /\ \A orb \in Orbs : \A u1, u2 \in Users : ClaimPda(orb, u1) = ClaimPda(orb, u2)

\* Both assets are claimed and a further feed_orb has just been refused.
C1_Witness ==
    /\ Cardinality(DOMAIN claim_record) = Cardinality(Orbs)
    /\ LastWas("feed_orb", AlreadyClaimed)

\* The accounts of a feed_orb call pass Anchor's validation: the asset has
\* no ClaimRecord yet and the named balance is owned by the claimer and is
\* of the mint passed with it.
AccountsValid(a) ==
    /\ forge_state.exists
    /\ ~Claimed(a.orb_mint)
    /\ TokenOwner(a.user_rari_account) = a.user
    /\ TokenMint(a.user_rari_account) = a.rari_mint

\* A transaction with outcome `out` leaves every account as it was and
\* logs nothing.
ChangesNothing(out) == Post(out) = Cur

\* This step is a transaction of instruction `op`.
IsTx(op) == last'.op = op

\* This step is the feed_orb call with arguments `a` and outcome `out`.
FeedOrbStep(a, out) == IsTx("feed_orb") /\ Transact("feed_orb", out)

\* ---------------------------------------------------------------- C2
\* C2 as stated: while paused, every feed_orb call, whatever its arguments
\* and whatever the state, fails with ProgramPaused and changes nothing.
C2_PausedAlwaysProgramPaused ==
    [][(forge_state.exists /\ forge_state.paused /\ IsTx("feed_orb")) =>
            /\ last'.err = "ProgramPaused"
            /\ accts' = accts
            /\ last'.events = <<>>]_vars

\* C2 as amended: while paused, every feed_orb call fails and changes
\* nothing (ledger, balances, records, events); it fails with ProgramPaused
\* when its accounts pass validation, whatever the metadata and the
\* balance, with AlreadyClaimed when the asset is already claimed, and
\* with a constraint violation when the named balance is not the
\* claimer's or not of the mint passed with it.
C2_PausedFailsAndChangesNothing ==
    (forge_state.exists /\ forge_state.paused) =>
        \A a \in FeedOrbArgs : \A out \in FeedOrbOuts(a) :
            /\ out.err # "Ok"
            /\ ChangesNothing(out)
            /\ AccountsValid(a) => out.err = "ProgramPaused"
            /\ Claimed(a.orb_mint) => out.err = AlreadyClaimed
            /\ (~Claimed(a.orb_mint) /\ ~AccountsValid(a)) => out.err = UnauthorizedBalance

\* A feed_orb has just been refused with ProgramPaused.
C2_Witness ==
    /\ forge_state.exists /\ forge_state.paused
    /\ LastWas("feed_orb", "ProgramPaused")

\* ---------------------------------------------------------------- C3
\* C3: every feed_orb call either succeeds in full (a ClaimRecord is
\* created, total_claimed is incremented, exactly one event is emitted,
\* the threshold is debited from one balance) or returns an error and
\* leaves the accounts and the event log exactly as they were.
C3_AllOrNothing ==
    [][IsTx("feed_orb") =>
        IF last'.err = "Ok"
        THEN /\ \E addr \in DOMAIN claim_record' : addr \notin DOMAIN claim_record
             /\ forge_state'.total_claimed = forge_state.total_claimed + 1
             /\ Len(last'.events) = 1
             /\ \E ta \in TokenAccounts :
                    token_amount' = [token_amount EXCEPT
                                        ![ta] = @ - forge_state.rari_threshold]
        ELSE accts' = accts /\ last'.events = <<>> /\ last'.msgs = <<>>]_vars

\* ---------------------------------------------------------------- C4
\* C4: once an asset has a ClaimRecord, every further feed_orb for it (any
\* claimer, any target chain, any other argument; program not paused)
\* fails with AlreadyClaimed and leaves the ledger, the records and the
\* balances as the first call left them.
C4_SecondClaimFails ==
    \A a \in FeedOrbArgs :
        (Claimed(a.orb_mint) /\ ~forge_state.paused) =>
            \A out \in FeedOrbOuts(a) :
                out.err = AlreadyClaimed /\ ChangesNothing(out)

\* One asset is claimed, the program is not paused, and a further feed_orb
\* has just been refused as already claimed.
C4_Witness ==
    /\ Cardinality(DOMAIN claim_record) = 1
    /\ ~forge_state.paused
    /\ forge_state.total_claimed = 1
    /\ LastWas("feed_orb", AlreadyClaimed)

\* ---------------------------------------------------------------- C5
\* C5: a successful feed_orb increases total_claimed by exactly 1 from
\* every prior value, the maximum included (no wrap to a smaller value);
\* a failing feed_orb and every other step on the existing ledger leave
\* it unchanged; so it never decreases.
C5_TotalClaimedPlusOne ==
    [][forge_state.exists =>
        /\ forge_state'.total_claimed =
              IF IsTx("feed_orb") /\ last'.err = "Ok"
              THEN forge_state.total_claimed + 1
              ELSE forge_state.total_claimed
        /\ forge_state'.total_claimed >= forge_state.total_claimed]_vars

\* ---------------------------------------------------------------- C6
\* C6: a successful feed_orb debits exactly forge_state.rari_threshold, as
\* it is when the call runs, from a balance of the claimer, and emits
\* exactly one event whose rari_burned is that amount and whose orb_mint,
\* claimer and target_chain are those of the ClaimRecord it created; the
\* threshold it uses is the one the last update_threshold of the
\* authority wrote; a failing feed_orb emits no event.
C6_BurnsAndReportsThreshold ==
    /\ \A a \in FeedOrbArgs : \A out \in FeedOrbOuts(a) :
          LET post == Post(out) IN
          IF out.err = "Ok"
          THEN /\ TokenOwner(a.user_rari_account) = a.user
               /\ post.token_amount =
                      [token_amount EXCEPT ![a.user_rari_account] =
                                               @ - forge_state.rari_threshold]
               /\ Len(post.events) = 1
               /\ post.events[1].rari_burned = forge_state.rari_threshold
               /\ \E addr \in DOMAIN post.claim_record :
                      /\ addr \notin DOMAIN claim_record
                      /\ post.claim_record[addr].orb_mint = post.events[1].orb_mint
                      /\ post.claim_record[addr].claimer = post.events[1].claimer
                      /\ post.claim_record[addr].target_chain = post.events[1].target_chain
                      /\ post.claim_record[addr].orb_mint = a.orb_mint
                      /\ post.claim_record[addr].claimer = a.user
                      /\ post.claim_record[addr].target_chain = a.chain_id
          ELSE post.events = <<>>
    /\ \A u \in UpdateThresholdArgs :
          UpdateThresholdOut(u).err = "Ok" =>
              Post(UpdateThresholdOut(u)).forge_state.rari_threshold = u.new_threshold
    /\ LastWas("feed_orb", "Ok") =>
          /\ Len(last.events) = 1
          /\ last.events[1].rari_burned = forge_state.rari_threshold

\* A feed_orb has just burned a positive threshold and reported it.
C6_Witness ==
    /\ LastWas("feed_orb", "Ok")
    /\ Len(last.events) = 1
    /\ last.events[1].rari_burned = InitAmount
    /\ token_amount["ta_u1"] = 0

\* ---------------------------------------------------------------- C7
\* C7: a toggle_pause or update_threshold whose signer is not the
\* ledger's authority fails as unauthorized (the authority account is
\* not a signer, or has_one fails) and leaves the ForgeState, and every
\* other account, unchanged; initialize and feed_orb never change paused
\* or rari_threshold of the existing ledger.
C7_AdminOnlyByAuthority ==
    forge_state.exists =>
        /\ \A a \in TogglePauseArgs :
              a.signer # forge_state.authority =>
                  /\ TogglePauseOut(a).err \in UnauthorizedAdmin
                  /\ ChangesNothing(TogglePauseOut(a))
        /\ \A a \in UpdateThresholdArgs :
              a.signer # forge_state.authority =>
                  /\ UpdateThresholdOut(a).err \in UnauthorizedAdmin
                  /\ ChangesNothing(UpdateThresholdOut(a))
        /\ \A a \in InitializeArgs :
              /\ Post(InitializeOut(a)).forge_state.paused = forge_state.paused
              /\ Post(InitializeOut(a)).forge_state.rari_threshold = forge_state.rari_threshold
        /\ \A a \in FeedOrbArgs : \A out \in FeedOrbOuts(a) :
              /\ Post(out).forge_state.paused = forge_state.paused
              /\ Post(out).forge_state.rari_threshold = forge_state.rari_threshold

\* A caller signing as itself, not being the authority, has just been
\* refused by has_one.
C7_Witness ==
    /\ forge_state.exists
    /\ LastWas("toggle_pause", "ConstraintHasOne")

\* ---------------------------------------------------------------- C8
\* C8: every successful feed_orb burns a balance of the mint configured
\* in forge_state.rari_mint at initialize; a feed_orb that passes a
\* balance of another mint never succeeds.
C8_BurnsGatingToken ==
    [][\A a \in FeedOrbArgs : \A out \in FeedOrbOuts(a) :
          (FeedOrbStep(a, out) /\ out.err = "Ok") =>
              /\ a.rari_mint = forge_state.rari_mint
              /\ TokenMint(a.user_rari_account) = forge_state.rari_mint]_vars

\* ---------------------------------------------------------------- C9
\* C9: the claimer of every ClaimRecord holds the orb it claims (a
\* feed_orb by an identity that does not hold the orb creates no record).
C9_ClaimerHoldsOrb ==
    \A addr \in DOMAIN claim_record :
        OrbHolder(claim_record[addr].orb_mint) = claim_record[addr].claimer

\* ---------------------------------------------------------------- C10
\* C10 as stated, for calls that pass the steps the specification puts
\* before the debit (not paused, metadata naming the asset): a feed_orb
\* naming a balance owned by another identity fails as unauthorized, one
\* whose own balance is below the threshold fails with
\* InsufficientBalance, and neither changes a balance or creates a record.
C10_ForeignOrShortBalanceErrors ==
    [][\A a \in FeedOrbArgs : \A out \in FeedOrbOuts(a) :
          (/\ FeedOrbStep(a, out)
           /\ forge_state.exists /\ ~forge_state.paused
           /\ MetadataCheck(a.orb_metadata, a.orb_mint)) =>
              /\ TokenOwner(a.user_rari_account) # a.user =>
                    out.err = UnauthorizedBalance /\ accts' = accts
              /\ (/\ TokenOwner(a.user_rari_account) = a.user
                  /\ TokenMint(a.user_rari_account) = a.rari_mint
                  /\ token_amount[a.user_rari_account] < forge_state.rari_threshold) =>
                    out.err = InsufficientBalance /\ accts' = accts]_vars

\* C10 as amended: every debit of feed_orb is from a balance owned by the
\* signing claimer and no other balance changes.  For an asset without a
\* ClaimRecord, a feed_orb naming a balance owned by another identity
\* fails with the owner constraint, paused or not, and one whose own
\* balance of the passed mint is below the threshold fails with
\* InsufficientBalance when the program is not paused and the metadata
\* names the asset; for an asset that has a ClaimRecord both fail with
\* AlreadyClaimed.  In all these cases nothing changes.
C10_NoThirdPartyDebit ==
    forge_state.exists =>
        \A a \in FeedOrbArgs : \A out \in FeedOrbOuts(a) :
            LET ta == a.user_rari_account
                foreign == TokenOwner(ta) # a.user
                short == token_amount[ta] < forge_state.rari_threshold
            IN /\ out.err = "Ok" =>
                    /\ ~foreign
                    /\ \A t \in TokenAccounts \ {ta} :
                           Post(out).token_amount[t] = token_amount[t]
               /\ (foreign \/ short) => (out.err # "Ok" /\ ChangesNothing(out))
               /\ (foreign /\ ~Claimed(a.orb_mint)) => out.err = UnauthorizedBalance
               /\ (/\ short /\ ~foreign /\ ~Claimed(a.orb_mint)
                   /\ TokenMint(ta) = a.rari_mint
                   /\ ~forge_state.paused
                   /\ MetadataCheck(a.orb_metadata, a.orb_mint)) =>
                      out.err = InsufficientBalance
               /\ ((foreign \/ short) /\ Claimed(a.orb_mint)) => out.err = AlreadyClaimed

\* A feed_orb has just failed for lack of funds: the claimer's balance is
\* below the threshold and unchanged.
C10_Witness ==
    /\ LastWas("feed_orb", InsufficientBalance)
    /\ token_amount["ta_u1"] < forge_state.rari_threshold

\* ---------------------------------------------------------------- C11
\* A feed_orb call with arguments `a` could succeed in the current state.
CouldSucceed(a) == \E out \in FeedOrbOuts(a) : out.err = "Ok"

\* C11 as stated: a feed_orb for an asset that another call has already
\* claimed, by a claimer who can pay the threshold from an own balance,
\* fails with AlreadyClaimed and its threshold is nevertheless debited
\* (debit before the unique insert, no refund).
C11_LoserTokensSpent ==
    [][\A a \in FeedOrbArgs : \A out \in FeedOrbOuts(a) :
          (/\ FeedOrbStep(a, out)
           /\ Claimed(a.orb_mint) /\ ~forge_state.paused
           /\ MetadataCheck(a.orb_metadata, a.orb_mint)
           /\ TokenOwner(a.user_rari_account) = a.user
           /\ TokenMint(a.user_rari_account) = a.rari_mint
           /\ token_amount[a.user_rari_account] >= forge_state.rari_threshold) =>
              /\ out.err = AlreadyClaimed
              /\ token_amount'[a.user_rari_account] =
                     token_amount[a.user_rari_account] - forge_state.rari_threshold]_vars

\* C11 as amended: of two feed_orb calls for one asset, each of which
\* could succeed alone, the one that commits first wins; the other then
\* fails with AlreadyClaimed and spends nothing: every balance, the mint
\* supplies, the records and the ledger are as the winner left them (the
\* unique insert is attempted before the debit, and a failed transaction
\* keeps none of its writes).
C11_LoserKeepsTokens ==
    \A a1 \in FeedOrbArgs : \A o1 \in FeedOrbOuts(a1) :
        o1.err = "Ok" =>
            \A a2 \in {a \in FeedOrbArgs : a.orb_mint = a1.orb_mint} :
                CouldSucceed(a2) =>
                    LET won == Committed(Cur, o1) IN
                    \A o2 \in FeedOrbOutsAt(won, a2) :
                        /\ o2.err = AlreadyClaimed
                        /\ Committed(won, o2) = won
                        /\ won.claim_record[ClaimPda(a1.orb_mint, a1.user)].claimer = a1.user

\* An asset is claimed by u2; u1, whose balance covers the positive
\* threshold, has just lost with AlreadyClaimed and its balance is intact.
C11_Witness ==
    /\ LastWas("feed_orb", AlreadyClaimed)
    /\ ~forge_state.paused
    /\ \E addr \in DOMAIN claim_record : claim_record[addr].claimer = "u2"
    /\ forge_state.rari_threshold = InitAmount
    /\ token_amount["ta_u1"] = InitAmount

\* ---------------------------------------------------------------- C12
\* AlreadyInitialized is the system program refusing to create the
\* forge_state account a second time.
AlreadyInitialized == "AccountAlreadyInUse"

\* C12: the first initialize creates the ForgeState with total_claimed 0,
\* paused false, authority the signer, and wormhole_bridge, rari_mint and
\* rari_threshold as passed, and touches nothing else; every later
\* initialize, by any signer with any parameters, fails with
\* AlreadyInitialized and changes nothing.
C12_SingleInitialization ==
    \A a \in InitializeArgs :
        LET out == InitializeOut(a) IN
        IF forge_state.exists
        THEN out.err = AlreadyInitialized /\ ChangesNothing(out)
        ELSE /\ out.err = "Ok"
             /\ Post(out) =
                    [Cur EXCEPT !.forge_state =
                        [exists |-> TRUE, authority |-> a.authority,
                         wormhole_bridge |-> a.wormhole_bridge,
                         rari_mint |-> a.rari_mint,
                         rari_threshold |-> a.rari_threshold,
                         total_claimed |-> 0, paused |-> FALSE]]

\* A ledger with a claim counted, paused by its authority u1, on which a
\* further initialize has just been refused.
C12_Witness ==
    /\ LastWas("initialize", AlreadyInitialized)
    /\ forge_state.authority = "u1"
    /\ forge_state.total_claimed = 1
    /\ forge_state.paused

\* ---------------------------------------------------------------- C13
\* The metadata account is the Metaplex metadata of the asset: it is a
\* genuine metadata account and it names the asset's mint.
BoundTo(orb_metadata, orb_mint) ==
    MetadataGenuine(orb_metadata) /\ MetadataMint(orb_metadata) = orb_mint

\* C13: a feed_orb succeeds only if the metadata passed is bound to the
\* asset; a call whose metadata is not (an account fabricated by the
\* caller included) debits nothing and creates no record, and, when it
\* reaches the metadata check (accounts valid, program not paused), fails
\* with InvalidOrbMetadata.
C13_AuthenticityGate ==
    [][\A a \in FeedOrbArgs : \A out \in FeedOrbOuts(a) :
          (FeedOrbStep(a, out) /\ ~BoundTo(a.orb_metadata, a.orb_mint)) =>
              /\ out.err # "Ok"
              /\ accts' = accts
              /\ (AccountsValid(a) /\ ~forge_state.paused) =>
                     out.err = "InvalidOrbMetadata"]_vars

\* ---------------------------------------------------------------- C14
\* `m` is the dispatch payload {assetId, claimer, targetChain} of the
\* claim recorded in `r`.
IsDispatchPayload(m, r) ==
    /\ DOMAIN m = {"orb_mint", "claimer", "target_chain"}
    /\ m.orb_mint = r.orb_mint
    /\ m.claimer = r.claimer
    /\ m.target_chain = r.target_chain

\* C14: a successful feed_orb builds for the bridge exactly one dispatch
\* payload {orb_mint, claimer, target_chain}, that of the claim it
\* recorded, if and only if target_chain is not 1; with target_chain 1 it
\* builds none, and a failing feed_orb never builds one.
C14_BridgeDispatch ==
    [][IsTx("feed_orb") =>
        IF last'.err = "Ok"
        THEN \A addr \in DOMAIN claim_record' \ DOMAIN claim_record :
                 LET r == claim_record'[addr] IN
                 IF r.target_chain # 1
                 THEN /\ Len(last'.msgs) = 1
                      /\ IsDispatchPayload(last'.msgs[1], r)
                 ELSE last'.msgs = <<>>
        ELSE last'.msgs = <<>>]_vars

\* ---------------------------------------------------------------- C15
\* C15: a ClaimRecord, once it exists, exists in every later state with
\* the orb_mint, claimer, claimed_at and target_chain it was created with:
\* no step deletes or rewrites it.  A record appears only in a successful
\* feed_orb, at the address of its asset, and names that asset.
C15_RecordsImmutable ==
    [][/\ \A addr \in DOMAIN claim_record :
              /\ addr \in DOMAIN claim_record'
              /\ claim_record'[addr] = claim_record[addr]
       /\ \A addr \in DOMAIN claim_record' \ DOMAIN claim_record :
              /\ IsTx("feed_orb") /\ last'.err = "Ok"
              /\ addr = ClaimPda(claim_record'[addr].orb_mint,
                                 claim_record'[addr].claimer)
              /\ claim_record'[addr].claimer \in Users]_vars

\* An asset was claimed, and afterwards the authority has paused the
\* program and a further feed_orb for a claimed asset was refused.
C15_Witness ==
    /\ Claimed("o1") /\ Claimed("o2")
    /\ forge_state.paused
    /\ LastWas("feed_orb", AlreadyClaimed)
    /\ \E addr \in DOMAIN claim_record : claim_record[addr].claimed_at = MaxClock

\* ---------------------------------------------------------------- C16
\* A feed_orb call with arguments `a`, issued alone in the current state,
\* succeeds whatever the clock reads.
SucceedsAlone(a) == \A out \in FeedOrbOuts(a) : out.err = "Ok"

\* Two states have the same ClaimRecords up to claimed_at, the same
\* ledger and the same balances.
SameUpToClaimedAt(s, t) ==
    /\ s.forge_state = t.forge_state
    /\ s.token_amount = t.token_amount
    /\ s.mint_supply = t.mint_supply
    /\ DOMAIN s.claim_record = DOMAIN t.claim_record
    /\ \A addr \in DOMAIN s.claim_record :
           [s.claim_record[addr] EXCEPT !.claimed_at = 0] =
           [t.claim_record[addr] EXCEPT !.claimed_at = 0]

\* C16: in every state, two feed_orb calls on distinct assets (same
\* claimer or not), each of which succeeds if issued alone, both succeed
\* when issued one after the other in either order, and the two orders
\* end with the same records (up to claimed_at), the same total_claimed
\* and the same balances.
C16_DistinctAssetsCommute ==
    \A a1 \in FeedOrbArgs :
        SucceedsAlone(a1) =>
            \A a2 \in {a \in FeedOrbArgs : a.orb_mint # a1.orb_mint} :
                SucceedsAlone(a2) =>
                    \A o1 \in FeedOrbOuts(a1) :
                        LET s1 == Committed(Cur, o1) IN
                        \A o2 \in FeedOrbOutsAt(s1, a2) :
                            /\ o2.err = "Ok"
                            /\ \E p2 \in FeedOrbOuts(a2) :
                                   LET t2 == Committed(Cur, p2) IN
                                   \E p1 \in FeedOrbOutsAt(t2, a1) :
                                       /\ p1.err = "Ok"
                                       /\ SameUpToClaimedAt(Committed(s1, o2),
                                                            Committed(t2, p1))

\* ---------------------------------------------------------------- C17
\* C17 as stated, for calls naming a balance of the claimer and its mint:
\* the steps run in the order pause check, metadata check, debit, unique
\* insert, so a paused call reports ProgramPaused, an unpaused one with
\* metadata of another mint InvalidOrbMetadata, one past both with a short
\* balance InsufficientBalance, each also when the asset is already
\* claimed, and AlreadyClaimed is reported only past all three.
C17_PauseMetadataDebitInsert ==
    [][\A a \in FeedOrbArgs : \A out \in FeedOrbOuts(a) :
          (/\ FeedOrbStep(a, out)
           /\ forge_state.exists
           /\ TokenOwner(a.user_rari_account) = a.user
           /\ TokenMint(a.user_rari_account) = a.rari_mint) =>
              out.err =
                 IF forge_state.paused THEN "ProgramPaused"
                 ELSE IF ~MetadataCheck(a.orb_metadata, a.orb_mint)
                 THEN "InvalidOrbMetadata"
                 ELSE IF token_amount[a.user_rari_account] < forge_state.rari_threshold
                 THEN InsufficientBalance
                 ELSE IF Claimed(a.orb_mint) THEN AlreadyClaimed
                 ELSE out.err]_vars

\* The errors a feed_orb call can report in the current state, by the
\* first step that fails in the order: unique insert of the ClaimRecord,
\* owner and mint of the named balance, pause check, metadata check,
\* debit, counter increment.
FirstFailure(a) ==
    IF ~forge_state.exists THEN {"AccountNotInitialized"}
    ELSE IF Claimed(a.orb_mint) THEN {AlreadyClaimed}
    ELSE IF TokenOwner(a.user_rari_account) # a.user THEN {UnauthorizedBalance}
    ELSE IF TokenMint(a.user_rari_account) # a.rari_mint THEN {UnauthorizedBalance}
    ELSE IF forge_state.paused THEN {"ProgramPaused"}
    ELSE IF ~MetadataCheck(a.orb_metadata, a.orb_mint) THEN {"InvalidOrbMetadata"}
    ELSE IF token_amount[a.user_rari_account] < forge_state.rari_threshold
    THEN {InsufficientBalance}
    ELSE IF forge_state.total_claimed = U64_MAX
    THEN {"ProgramFailedToComplete", "Ok"}
    ELSE {"Ok"}

\* C17 as amended: the unique insert of the ClaimRecord and the checks of
\* the named balance come first, then pause check, metadata check, debit
\* and counter increment; the error reported is that of the first step
\* that fails in this order (paused and already claimed reports
\* AlreadyClaimed, as do metadata of another mint and already claimed,
\* and short balance and already claimed; paused and metadata of another
\* mint reports ProgramPaused), and a failing call leaves nothing of the
\* steps that ran before the failure.
C17_InsertPauseMetadataDebit ==
    \A a \in FeedOrbArgs :
        /\ {out.err : out \in FeedOrbOuts(a)} = FirstFailure(a)
        /\ \A out \in FeedOrbOuts(a) : out.err # "Ok" => ChangesNothing(out)

\* Paused, o1 claimed, the claimer's balance short of the threshold: a
\* feed_orb for o1 has just been refused with AlreadyClaimed.
C17_Witness ==
    /\ forge_state.paused
    /\ Claimed("o1") /\ ~Claimed("o2")
    /\ token_amount["ta_u1"] < forge_state.rari_threshold
    /\ LastWas("feed_orb", AlreadyClaimed)

\* ---------------------------------------------------------------- C18
\* The admin call `a` is signed by the ledger's authority.
ByAuthority(a) == a.signer = forge_state.authority /\ a.authority = a.signer

\* What the admin instructions do in the current state when the authority
\* calls them.
AdminEffects ==
    forge_state.exists =>
        /\ \A a \in TogglePauseArgs :
              ByAuthority(a) =>
                  LET out == TogglePauseOut(a)
                      once == Committed(Cur, out)
                      back == TogglePauseOutAt(once, a)
                  IN /\ out.err = "Ok"
                     /\ Post(out) = [Cur EXCEPT !.forge_state.paused = ~forge_state.paused]
                     /\ back.err = "Ok"
                     /\ Committed(once, back) = Cur
        /\ \A a \in UpdateThresholdArgs :
              ByAuthority(a) =>
                  LET out == UpdateThresholdOut(a) IN
                  /\ out.err = "Ok"
                  /\ Post(out) = [Cur EXCEPT !.forge_state.rari_threshold = a.new_threshold]
        /\ \A a \in FeedOrbArgs : \A out \in FeedOrbOuts(a) :
              IF forge_state.paused
              THEN out.err # "Ok"
              ELSE out.err # "ProgramPaused"

\* C18: toggle_pause by the authority always succeeds and changes only
\* paused, to its negation, so two in a row restore the ledger;
\* update_threshold by the authority succeeds for every u64, 0 included,
\* and changes only rari_threshold, to the value passed; paused changes
\* in a successful toggle_pause and in no other step, so the program is
\* paused, and every feed_orb rejected, exactly after an odd number of
\* successful toggles.
C18_AdminEffects ==
    /\ []AdminEffects
    /\ [][(forge_state'.paused # forge_state.paused) <=>
             (IsTx("toggle_pause") /\ last'.err = "Ok")]_vars

\* After a claim the authority has paused the program and then set the
\* threshold to 0.
C18_Witness ==
    /\ LastWas("update_threshold", "Ok")
    /\ forge_state.rari_threshold = 0
    /\ forge_state.paused
    /\ forge_state.total_claimed = 1
    /\ token_amount["ta_u1"] = 0

\* ---------------------------------------------------------------- C19
\* C19: in every reachable state total_claimed is the number of
\* ClaimRecords that exist, and it is 0 exactly when there is none.
C19_CounterMatchesRegistry ==
    /\ forge_state.total_claimed = Cardinality(DOMAIN claim_record)
    /\ forge_state.total_claimed = 0 <=> DOMAIN claim_record = {}

\* ---------------------------------------------------------------- C20
\* Before the ForgeState exists no feed_orb, toggle_pause or
\* update_threshold succeeds, and each leaves everything as it was.
OnlyInitializeBeforeLedger ==
    ~forge_state.exists =>
        /\ \A a \in FeedOrbArgs : \A out \in FeedOrbOuts(a) :
              out.err # "Ok" /\ ChangesNothing(out)
        /\ \A a \in TogglePauseArgs :
              TogglePauseOut(a).err # "Ok" /\ ChangesNothing(TogglePauseOut(a))
        /\ \A a \in UpdateThresholdArgs :
              UpdateThresholdOut(a).err # "Ok" /\ ChangesNothing(UpdateThresholdOut(a))

\* C20: once the ForgeState exists it exists for ever, and its authority,
\* wormhole_bridge and rari_mint are those the successful initialize
\* wrote: no step (feed_orb, toggle_pause, update_threshold or a further
\* initialize, by any signer) changes them; and before it exists only
\* initialize succeeds.
C20_IdentitiesFixed ==
    /\ []OnlyInitializeBeforeLedger
    /\ [][IF forge_state.exists
          THEN /\ forge_state'.exists
               /\ forge_state'.authority = forge_state.authority
               /\ forge_state'.wormhole_bridge = forge_state.wormhole_bridge
               /\ forge_state'.rari_mint = forge_state.rari_mint
          ELSE forge_state'.exists =>
                  /\ IsTx("initialize") /\ last'.err = "Ok"
                  /\ forge_state'.authority \in Users
                  /\ forge_state'.wormhole_bridge \in Bridges
                  /\ forge_state'.rari_mint \in RariMints]_vars

\* The ledger of u1 after a claim, two toggles and a refused attempt of
\* another signer to change the threshold: its identities are those of
\* initialize.
C20_Witness ==
    /\ forge_state.authority = "u1"
    /\ forge_state.wormhole_bridge = "wh"
    /\ forge_state.rari_mint = RARI
    /\ forge_state.total_claimed = 1
    /\ ~forge_state.paused
    /\ LastWas("update_threshold", "ConstraintHasOne")

====
